---- MODULE Spec2Model ----
(***************************************************************************)
(* The participation tracker of tiss-tuwel-cli                             *)
(* (src/src/tiss_tuwel_cli/participation_tracker.py) as a state machine.   *)
(*                                                                         *)
(* The state is the persisted JSON file, the file system's willingness to  *)
(* read and write it, and the outcome of the last call made on a           *)
(* ParticipationTracker.  Every public method is one action; each loads    *)
(* the file, computes, and (for the mutating ones) saves, as the code      *)
(* does.  Python values are modelled by what the code can observe of them: *)
(*   - a dict is a function, its keys the str() of the course ids,         *)
(*     spelled as sequences of characters;                                 *)
(*   - None, booleans, dicts are tagged records [t |-> ..., v |-> ...];    *)
(*   - a float is the exact rational it stands for, a record               *)
(*     [num, den] in lowest terms with den > 0;                            *)
(*   - a raised exception is the field exc of an outcome.                  *)
(*                                                                         *)
(* The specifications share the actions:                                   *)
(*   Spec           two courses on a healthy file system;                  *)
(*   SpecEstimator  one course with long histories and many group sizes;   *)
(*   SpecFaults     two courses on a file system that damages, removes,    *)
(*                  hides and refuses to write the file;                   *)
(*   SpecNames      two courses whose display name changes between calls;  *)
(*   SpecConcurrent two processes on one file, whose loads, truncating     *)
(*                  opens and writes interleave;                           *)
(*   SpecStartup    two processes that construct their trackers step by    *)
(*                  step, and record;                                      *)
(*   SpecInstances  two tracker instances that take turns on one file.     *)
(***************************************************************************)
EXTENDS Integers, Sequences, FiniteSets, TLC

VARIABLES
    file,         \* the content of data_file on disk
    readable,     \* whether open(data_file, 'r') is permitted
    writable,     \* what open(data_file, 'w') + json.dump does: "ok", "denied", "full"
    constructed,  \* whether a ParticipationTracker has been constructed
    last,         \* the last call: its name, arguments, exception and return value
    hist,         \* per course id: record calls (and those with was_called) since it had no record
    procs         \* per process: where it is in a call that saves, and the mapping it is saving

vars == <<file, readable, writable, constructed, last, hist, procs>>

----------------------------------------------------------------------------
(* Bounds and input sets *)

\* Record is not called once the store holds this many sessions in all.
MaxSessions == 2
\* The estimator specification records at most this many sessions.
MaxHistory == 6

CourseIds == {7, 42}
CourseNames == {"Algorithms I"}
Exercises == {"Exercise 3", "Exercise 4"}
\* The optional date argument: << >> is None (omitted), <<d>> is the string d.
DateArgs == {<< >>, <<"">>, <<"2024-03-01">>}
\* datetime.now().strftime('%Y-%m-%d')
Today == "2024-03-08"
\* Values passed to set_group_size (the default 1 is stored on creation).
GroupSizes == {0, 2}
\* Group sizes and inputs of the estimator specification.
EstimatorGroupSizes == {-2, 0, 1, 2, 3, 4, 5, 7}
\* The estimator and the fault specifications vary only what they are about.
OneCourseId == {42}
OneName == {"Algorithms I"}
OneExercise == {"Exercise 3"}
NoDate == {<< >>}
TwoNames == {"Algorithms I", "Algorithms and Data Structures"}
FaultGroupSizes == {0, 2}

\* The processes that use the same data file.
Procs == {"p1", "p2"}

----------------------------------------------------------------------------
(* Python values *)

None == [t |-> "None"]
PyBool(b) == [t |-> "bool", v |-> b]
PyDict(d) == [t |-> "dict", v |-> d]
PyList == [t |-> "list"]
EmptyDict == [k \in {} |-> 0]

\* str(int): the decimal digits, with a leading "-" for a negative number.
DigitChar(n) == CASE n = 0 -> "0" [] n = 1 -> "1" [] n = 2 -> "2" [] n = 3 -> "3"
                  [] n = 4 -> "4" [] n = 5 -> "5" [] n = 6 -> "6" [] n = 7 -> "7"
                  [] n = 8 -> "8" [] n = 9 -> "9"

RECURSIVE StrNat(_)
StrNat(n) == IF n < 10 THEN <<DigitChar(n)>>
             ELSE StrNat(n \div 10) \o <<DigitChar(n % 10)>>

Str(i) == IF i < 0 THEN <<"-">> \o StrNat(0 - i) ELSE StrNat(i)

\* int(str) on the decimal spelling.
DigitVal(c) == CASE c = "0" -> 0 [] c = "1" -> 1 [] c = "2" -> 2 [] c = "3" -> 3
                 [] c = "4" -> 4 [] c = "5" -> 5 [] c = "6" -> 6 [] c = "7" -> 7
                 [] c = "8" -> 8 [] c = "9" -> 9

RECURSIVE IntNat(_)
IntNat(s) == IF Len(s) = 0 THEN 0
             ELSE 10 * IntNat(SubSeq(s, 1, Len(s) - 1)) + DigitVal(s[Len(s)])

Int_(s) == IF Len(s) > 0 /\ s[1] = "-" THEN 0 - IntNat(Tail(s)) ELSE IntNat(s)

\* data[key] = value
DictSet(d, key, value) ==
    [k \in (DOMAIN d) \cup {key} |-> IF k = key THEN value ELSE d[k]]

\* A faulty deletion, to test DeleteLeavesOthers: data.clear().
DictClear(d, key) == EmptyDict

\* del data[key]
DictDel(d, key) == [k \in (DOMAIN d) \ {key} |-> d[k]]

----------------------------------------------------------------------------
(* Floats, as exact rationals *)

RECURSIVE GCD(_, _)
GCD(a, b) == IF b = 0 THEN a ELSE GCD(b, a % b)

Abs(x) == IF x < 0 THEN 0 - x ELSE x

Frac(n, d) ==
    LET g == GCD(Abs(n), Abs(d))
        s == IF d < 0 THEN 0 - 1 ELSE 1
    IN  [num |-> (s * n) \div g, den |-> (s * d) \div g]

FromInt(i) == [num |-> i, den |-> 1]
RAdd(x, y) == Frac(x.num * y.den + y.num * x.den, x.den * y.den)
RSub(x, y) == Frac(x.num * y.den - y.num * x.den, x.den * y.den)
RMul(x, y) == Frac(x.num * y.num, x.den * y.den)
RDiv(x, y) == Frac(x.num * y.den, x.den * y.num)
RLe(x, y) == x.num * y.den <= y.num * x.den
RLt(x, y) == x.num * y.den < y.num * x.den
RMax(x, y) == IF RLt(x, y) THEN y ELSE x
RMin(x, y) == IF RLt(y, x) THEN y ELSE x

----------------------------------------------------------------------------
(* The persisted store: _load_data and _save_data *)

\* The file's content is one of
\*   [kind |-> "missing"]                no file
\*   [kind |-> "object", members |-> d]  the JSON object json.dump wrote for the dict d
\*   [kind |-> "garbled"]                text that is not JSON (a truncated file, JSON followed by more text)
\*   [kind |-> "empty"]                  no text at all: the file right after open(.., 'w')
\*   [kind |-> "undecodable"]            bytes that are not text in open()'s encoding
\*   [kind |-> "array"]                  the JSON text "[]": valid JSON, not an object
Missing == [kind |-> "missing"]
JsonObject(d) == [kind |-> "object", members |-> d]
Garbled == [kind |-> "garbled"]
Empty == [kind |-> "empty"]
Undecodable == [kind |-> "undecodable"]
JsonArray == [kind |-> "array"]

Raise(e) == [exc |-> e, val |-> None]
Return(v) == [exc |-> "none", val |-> v]

\* _load_data on file content f: open() raises FileNotFoundError for a missing
\* file and PermissionError for an unreadable one, json.load raises
\* UnicodeDecodeError while decoding and JSONDecodeError while parsing; the
\* except clause catches JSONDecodeError and FileNotFoundError only.
LoadData(f, canRead) ==
    CASE f.kind = "missing"     -> Return(PyDict(EmptyDict))
      [] ~canRead               -> Raise("PermissionError")
      [] f.kind = "undecodable" -> Raise("UnicodeDecodeError")
      [] f.kind = "garbled"     -> Return(PyDict(EmptyDict))
      [] f.kind = "empty"       -> Return(PyDict(EmptyDict))
      [] f.kind = "array"       -> Return(PyList)
      [] f.kind = "object"      -> Return(PyDict(f.members))

\* A faulty save, to test WriteFailureSurfaces: the write wrapped in
\* try/except OSError: pass.
SaveDataSwallowing(f, data, canWrite) ==
    CASE canWrite = "ok"     -> [file |-> JsonObject(data), exc |-> "none"]
      [] canWrite = "denied" -> [file |-> f, exc |-> "none"]
      [] canWrite = "full"   -> [file |-> Garbled, exc |-> "none"]

\* _save_data: open(.., 'w') truncates the file, json.dump writes the whole
\* mapping.  Nothing catches a failure: "denied" is open() raising before the
\* file is touched, "full" is the write failing after the truncation.
SaveData(f, data, canWrite) ==
    CASE canWrite = "ok"     -> [file |-> JsonObject(data), exc |-> "none"]
      [] canWrite = "denied" -> [file |-> f, exc |-> "PermissionError"]
      [] canWrite = "full"   -> [file |-> Garbled, exc |-> "OSError"]

\* The outcome of a public method: the file it leaves, what it raised, what it
\* returned, and how often it called _save_data.
Outcome(f, e, r) == [file |-> f, exc |-> e, ret |-> r, saves |-> 0]

\* The outcome of a method that ends by saving (sv is what SaveData did) and
\* then returns r: an exception of the save propagates.
Saved(sv, r) ==
    [file |-> sv.file, exc |-> sv.exc,
     ret |-> IF sv.exc = "none" THEN r ELSE None, saves |-> 1]

\* _ensure_data_exists: write the empty mapping when there is no file.
EnsureDataExists(f, canWrite) ==
    IF f.kind = "missing"
    THEN Saved(SaveData(f, EmptyDict, canWrite), None)
    ELSE Outcome(f, "none", None)

----------------------------------------------------------------------------
(* The text json.dump(data, f, indent=4) writes, by its length in           *)
(* characters: two saves that overlap meet in the file at this granularity. *)

\* A string in quotes (the strings of the model need no escapes).
JsonStringLength(s) == Len(s) + 2

IntLength(i) == IF i < 0 THEN 1 + Len(Str(0 - i)) ELSE Len(Str(i))

\* One session, nested at 12 spaces: "{", three members at 16 spaces
\* separated by ",", and "}" on a line of its own.
SessionLength(s) ==
    2 + (16 + 8 + JsonStringLength(s.date))
      + 2 + (16 + 12 + JsonStringLength(s.exercise))
      + 2 + (16 + 14 + (IF s.was_called THEN 4 ELSE 5))
      + 1 + 12 + 1

RECURSIVE SumSessionLengths(_)
SumSessionLengths(sessions) ==
    IF sessions = << >> THEN 0
    ELSE 12 + SessionLength(Head(sessions)) + SumSessionLengths(Tail(sessions))

\* The sessions list, nested at 8 spaces: "[]" when empty.
SessionsLength(sessions) ==
    IF sessions = << >> THEN 2
    ELSE 2 + SumSessionLengths(sessions) + 2 * (Len(sessions) - 1) + 1 + 8 + 1

\* One course entry, nested at 4 spaces, its members at 8 spaces.
CourseLength(course) ==
    2 + (8 + 15 + JsonStringLength(course.course_name))
      + 2 + (8 + 14 + IntLength(course.group_size))
      + 2 + (8 + 12 + SessionsLength(course.sessions))
      + 1 + 4 + 1

RECURSIVE SumCourseLengths(_, _)
SumCourseLengths(data, keys) ==
    IF keys = {} THEN 0
    ELSE LET k == CHOOSE x \in keys : TRUE
         IN  4 + (Len(k) + 2) + 2 + CourseLength(data[k])
               + SumCourseLengths(data, keys \ {k})

\* The whole mapping: "{}" when empty.
TextLength(data) ==
    IF DOMAIN data = {} THEN 2
    ELSE 2 + SumCourseLengths(data, DOMAIN data)
           + 2 * (Cardinality(DOMAIN data) - 1) + 1 + 1

\* What the file can hold after the text of data is written from offset 0
\* into a file that holds f, by a writer whose open(.., 'w') came earlier:
\* the text replaces the characters it covers and whatever lies beyond it
\* stays.  JSON text followed by the end of another JSON text does not parse.
\* For content whose length is unknown both outcomes are possible.
WriteOver(f, data) ==
    CASE f.kind \in {"missing", "empty", "array"} -> {JsonObject(data)}
      [] f.kind = "object" ->
             IF TextLength(data) >= TextLength(f.members)
             THEN {JsonObject(data)}
             ELSE {Garbled}
      [] f.kind \in {"garbled", "undecodable"} -> {JsonObject(data), Garbled}

----------------------------------------------------------------------------
(* The session recorder: record_participation *)

\* A faulty first entry, to test CourseLifecycle: 'group_size': 0.
NewCourseUnsized(course_name) ==
    [course_name |-> course_name, group_size |-> 0, sessions |-> << >>]

\* The course entry created on first use (lines 91-95).
NewCourse(course_name) ==
    [course_name |-> course_name, group_size |-> 1, sessions |-> << >>]

\* date or datetime.now().strftime('%Y-%m-%d'): None and "" are both falsy.
SessionDate(date) == IF date = << >> \/ date = <<"">> THEN Today ELSE date[1]

\* The appended session (lines 101-105).
NewSession(date, exercise_name, was_called) ==
    [date |-> SessionDate(date), exercise |-> exercise_name, was_called |-> was_called]

\* Faulty appends, to test SessionCounts and RecordRoundTrip:
\* sessions = [s], and sessions.insert(0, s).
ReplaceSessions(sessions, s) == <<s>>
PrependSession(sessions, s) == <<s>> \o sessions

\* data[course_key]['sessions'].append(...)
AppendSession(sessions, s) == Append(sessions, s)

\* A faulty update, to test NameFollowsRecord: the name written only when
\* the entry is created.
KeepStoredName(stored_name, course_name) == stored_name

\* data[course_key]['course_name'] = course_name (line 98)
UpdateName(stored_name, course_name) == course_name

RecordParticipation(f, canRead, canWrite, course_id, course_name, exercise_name, was_called, date) ==
    LET ld == LoadData(f, canRead)
        course_key == Str(course_id)
    IN  IF ld.exc # "none" THEN Outcome(f, ld.exc, None)
        ELSE IF ld.val.t = "list"
        THEN \* course_key not in [] holds, and [][course_key] = {..} raises
             Outcome(f, "TypeError", None)
        ELSE LET data0 == ld.val.v
                 data1 == IF course_key \notin DOMAIN data0
                          THEN DictSet(data0, course_key, NewCourse(course_name))
                          ELSE data0
                 data2 == [data1 EXCEPT ![course_key].course_name = UpdateName(@, course_name)]
                 data3 == [data2 EXCEPT ![course_key].sessions =
                              AppendSession(@, NewSession(date, exercise_name, was_called))]
             IN  Saved(SaveData(f, data3, canWrite), None)

----------------------------------------------------------------------------
(* The group-size configurator: set_group_size *)

\* A faulty configurator, to test SetGroupSizeUnknownIsNoOp:
\* data.setdefault(course_key, {...})['group_size'] = group_size.
SetGroupSizeCreating(f, canRead, canWrite, course_id, group_size) ==
    LET ld == LoadData(f, canRead)
        course_key == Str(course_id)
    IN  IF ld.exc # "none" THEN Outcome(f, ld.exc, None)
        ELSE IF ld.val.t = "list" THEN Outcome(f, "TypeError", None)
        ELSE LET data0 == IF course_key \in DOMAIN ld.val.v THEN ld.val.v
                          ELSE DictSet(ld.val.v, course_key, NewCourse(""))
                 data == [data0 EXCEPT ![course_key].group_size = group_size]
             IN  Saved(SaveData(f, data, canWrite), None)

\* A faulty configurator, to test GroupSizeIndependent: the size assigned
\* to every stored course once the given one is found.
SetGroupSizeOfAll(f, canRead, canWrite, course_id, group_size) ==
    LET ld == LoadData(f, canRead)
        course_key == Str(course_id)
    IN  IF ld.exc # "none" THEN Outcome(f, ld.exc, None)
        ELSE IF ld.val.t = "list" THEN Outcome(f, "none", None)
        ELSE IF course_key \in DOMAIN ld.val.v
        THEN LET data == [k \in DOMAIN ld.val.v |->
                             [ld.val.v[k] EXCEPT !.group_size = group_size]]
             IN  Saved(SaveData(f, data, canWrite), None)
        ELSE Outcome(f, "none", None)

SetGroupSizeOn(f, canRead, canWrite, course_id, group_size) ==
    LET ld == LoadData(f, canRead)
        course_key == Str(course_id)
    IN  IF ld.exc # "none" THEN Outcome(f, ld.exc, None)
        ELSE IF ld.val.t = "list"
        THEN \* course_key in [] is false: nothing is done
             Outcome(f, "none", None)
        ELSE IF course_key \in DOMAIN ld.val.v
        THEN LET data == [ld.val.v EXCEPT ![course_key].group_size = group_size]
             IN  Saved(SaveData(f, data, canWrite), None)
        ELSE Outcome(f, "none", None)

----------------------------------------------------------------------------
(* The query facade: get_course_data, get_all_courses *)

\* A faulty lookup, to test ReadsLeaveFile: a file that does not parse is
\* rewritten as the empty mapping before None is returned.
GetCourseDataRepairing(f, canRead, course_id) ==
    LET ld == LoadData(f, canRead)
    IN  IF ld.exc # "none" THEN Outcome(f, ld.exc, None)
        ELSE IF ld.val.t = "list" THEN Outcome(f, "AttributeError", None)
        ELSE IF f.kind = "garbled" THEN Outcome(JsonObject(EmptyDict), "none", None)
        ELSE IF Str(course_id) \in DOMAIN ld.val.v
        THEN Outcome(f, "none", PyDict(ld.val.v[Str(course_id)]))
        ELSE Outcome(f, "none", None)

GetCourseData(f, canRead, course_id) ==
    LET ld == LoadData(f, canRead)
    IN  IF ld.exc # "none" THEN Outcome(f, ld.exc, None)
        ELSE IF ld.val.t = "list"
        THEN Outcome(f, "AttributeError", None)   \* [].get
        ELSE IF Str(course_id) \in DOMAIN ld.val.v
        THEN Outcome(f, "none", PyDict(ld.val.v[Str(course_id)]))
        ELSE Outcome(f, "none", None)

\* {int(k): v for k, v in data.items()}
IntKeys(data) ==
    [i \in {Int_(k) : k \in DOMAIN data} |->
        data[CHOOSE k \in DOMAIN data : Int_(k) = i]]

GetAllCourses(f, canRead) ==
    LET ld == LoadData(f, canRead)
    IN  IF ld.exc # "none" THEN Outcome(f, ld.exc, None)
        ELSE IF ld.val.t = "list"
        THEN Outcome(f, "AttributeError", None)   \* [].items
        ELSE Outcome(f, "none", PyDict(IntKeys(ld.val.v)))

----------------------------------------------------------------------------
(* Whole-course deletion: delete_course_data *)

DeleteCourseData(f, canRead, canWrite, course_id) ==
    LET ld == LoadData(f, canRead)
        course_key == Str(course_id)
    IN  IF ld.exc # "none" THEN Outcome(f, ld.exc, None)
        ELSE IF ld.val.t = "list"
        THEN Outcome(f, "none", PyBool(FALSE))    \* course_key in [] is false
        ELSE IF course_key \in DOMAIN ld.val.v
        THEN Saved(SaveData(f, DictDel(ld.val.v, course_key), canWrite), PyBool(TRUE))
        ELSE Outcome(f, "none", PyBool(FALSE))

----------------------------------------------------------------------------
(* The probability estimator: calculate_probability *)

\* A faulty factor, to test EstimateFormula: ADJUSTMENT_FACTOR = 1.0.
FullAdjustment == Frac(1, 1)

\* ADJUSTMENT_FACTOR = 0.5
ADJUSTMENT_FACTOR == Frac(1, 2)

\* A faulty guard, to test ClampedGroupSize: the stored value used as it is.
StoredGroupSize(group_size) == group_size

\* if group_size < 1: group_size = 1
EffectiveGroupSize(group_size) == IF group_size < 1 THEN 1 ELSE group_size

\* sum(1 for s in sessions if s.get('was_called', False))
TimesCalled(sessions) == Cardinality({i \in 1..Len(sessions) : sessions[i].was_called})

\* A faulty clamp, to test AdjustedWithinHalf: min(1, adjustment), the lower
\* limit left out.
ClampAdjustmentAbove(x) == RMin(FromInt(1), x)

\* max(-1, min(1, adjustment))
ClampAdjustment(x) == RMax(FromInt(0 - 1), RMin(FromInt(1), x))

\* A faulty clamp, to test ProbabilitiesInRange: the clamp left out.
Unclamped(x) == x

\* max(0.0, min(1.0, adjusted_prob))
ClampProbability(x) == RMax(FromInt(0), RMin(FromInt(1), x))

\* A faulty adjustment, to test GapZeroKeepsBase: the factor added to the
\* adjustment instead of multiplied, base_prob * (1 + adjustment + 0.5).
AdjustedProbabilityAdding(base_prob, expected_calls, times_called) ==
    IF RLt(FromInt(0), expected_calls)
    THEN LET adjustment == ClampAdjustment(
                 RDiv(RSub(expected_calls, FromInt(times_called)), expected_calls))
         IN  ClampProbability(
                 RMul(base_prob, RAdd(FromInt(1), RAdd(adjustment, ADJUSTMENT_FACTOR))))
    ELSE base_prob

\* A faulty adjustment, to test GapMovesProbabilityBelowCertainty: the gap
\* taken with the opposite sign, (times_called - expected_calls) / expected_calls.
AdjustedProbabilityInverted(base_prob, expected_calls, times_called) ==
    IF RLt(FromInt(0), expected_calls)
    THEN LET adjustment == ClampAdjustment(
                 RDiv(RSub(FromInt(times_called), expected_calls), expected_calls))
         IN  ClampProbability(
                 RMul(base_prob, RAdd(FromInt(1), RMul(adjustment, ADJUSTMENT_FACTOR))))
    ELSE base_prob

\* Lines 186-197.
AdjustedProbability(base_prob, expected_calls, times_called) ==
    IF RLt(FromInt(0), expected_calls)
    THEN LET adjustment == ClampAdjustment(
                 RDiv(RSub(expected_calls, FromInt(times_called)), expected_calls))
         IN  ClampProbability(
                 RMul(base_prob, RAdd(FromInt(1), RMul(adjustment, ADJUSTMENT_FACTOR))))
    ELSE base_prob

\* A faulty slice, to test RecentSessions: sessions[:5].
FirstFive(sessions) ==
    IF Len(sessions) <= 5 THEN sessions ELSE SubSeq(sessions, 1, 5)

\* sessions[-5:]
LastFive(sessions) ==
    IF Len(sessions) <= 5 THEN sessions
    ELSE SubSeq(sessions, Len(sessions) - 4, Len(sessions))

\* Lines 173-209: the result for a course with at least one session.
Statistics(course_id, course_data) ==
    LET sessions == course_data.sessions
        group_size == EffectiveGroupSize(course_data.group_size)
        total_sessions == Len(sessions)
        times_called == TimesCalled(sessions)
        base_prob == Frac(1, group_size)
        expected_calls == Frac(total_sessions, group_size)
        adjusted_prob == AdjustedProbability(base_prob, expected_calls, times_called)
    IN  [course_id |-> course_id,
         course_name |-> course_data.course_name,
         total_sessions |-> total_sessions,
         times_called |-> times_called,
         group_size |-> group_size,
         base_probability |-> RMul(base_prob, FromInt(100)),
         adjusted_probability |-> RMul(adjusted_prob, FromInt(100)),
         expected_calls |-> expected_calls,
         sessions |-> LastFive(sessions)]

PyStats(r) == [t |-> "stats", v |-> r]

\* A faulty guard, to test NoDataWithoutSessions: the check left out, so that
\* None.get('sessions', []) raises.
NoCourseRaises(f) == Outcome(f, "AttributeError", None)

\* if not course_data: return None (lines 166-167)
NoCourseData(f) == Outcome(f, "none", None)

CalculateProbability(f, canRead, course_id) ==
    LET gc == GetCourseData(f, canRead, course_id)
    IN  IF gc.exc # "none" THEN Outcome(f, gc.exc, None)
        ELSE IF gc.ret.t = "None" THEN NoCourseData(f)
        ELSE IF gc.ret.v.sessions = << >> THEN Outcome(f, "none", None)
        ELSE IF EffectiveGroupSize(gc.ret.v.group_size) = 0
        THEN \* 1.0 / group_size (line 181) with a divisor of 0
             Outcome(f, "ZeroDivisionError", None)
        ELSE Outcome(f, "none", PyStats(Statistics(course_id, gc.ret.v)))

----------------------------------------------------------------------------
(* The state machine *)

NoCalls == [c \in CourseIds |-> [n |-> 0, k |-> 0]]

\* A process that is not inside a call.
Idle == [pc |-> "idle", data |-> EmptyDict]

Call(op, args, o) ==
    [op |-> op, args |-> args, exc |-> o.exc, ret |-> o.ret, saves |-> o.saves]

RECURSIVE SumSessions(_, _)
SumSessions(d, keys) ==
    IF keys = {} THEN 0
    ELSE LET k == CHOOSE x \in keys : TRUE
         IN  Len(d[k].sessions) + SumSessions(d, keys \ {k})

\* The number of sessions the file holds.
TotalSessions(f) ==
    IF f.kind = "object" THEN SumSessions(f.members, DOMAIN f.members) ELSE 0

\* Whether the store, as a load sees it, has a record for the course id.
Present(f, canRead, course_id) ==
    LET ld == LoadData(f, canRead)
    IN  ld.exc = "none" /\ ld.val.t = "dict" /\ Str(course_id) \in DOMAIN ld.val.v

Init ==
    /\ file = Missing
    /\ readable = TRUE
    /\ writable = "ok"
    /\ constructed = FALSE
    /\ last = [op |-> "none", args |-> << >>, exc |-> "none", ret |-> None, saves |-> 0]
    /\ hist = NoCalls
    /\ procs = [p \in Procs |-> Idle]

\* ParticipationTracker(): __init__ runs _ensure_data_exists.
Construct ==
    LET o == EnsureDataExists(file, writable)
    IN  /\ file' = o.file
        /\ constructed' = (constructed \/ o.exc = "none")
        /\ last' = Call("construct", << >>, o)
        /\ hist' = IF o.exc = "none" THEN hist ELSE NoCalls
        /\ UNCHANGED <<readable, writable, procs>>

RecordOf(ids, names, exercises, dates, cap) ==
    /\ constructed
    /\ TotalSessions(file) < cap
    /\ \E course_id \in ids, course_name \in names, exercise_name \in exercises,
          was_called \in BOOLEAN, date \in dates :
          LET o == RecordParticipation(file, readable, writable, course_id,
                                       course_name, exercise_name, was_called, date)
              called == IF was_called THEN 1 ELSE 0
          IN  /\ file' = o.file
              /\ last' = Call("record",
                              [course_id |-> course_id, course_name |-> course_name,
                               exercise_name |-> exercise_name,
                               was_called |-> was_called, date |-> date], o)
              /\ hist' = IF o.exc = "none"
                         THEN [hist EXCEPT ![course_id] =
                                  IF Present(file, readable, course_id)
                                  THEN [n |-> @.n + 1, k |-> @.k + called]
                                  ELSE [n |-> 1, k |-> called]]
                         ELSE IF o.file = file THEN hist ELSE NoCalls
    /\ UNCHANGED <<readable, writable, constructed, procs>>

SetGroupSizeOf(ids, sizes) ==
    /\ constructed
    /\ \E course_id \in ids, group_size \in sizes :
          LET o == SetGroupSizeOn(file, readable, writable, course_id, group_size)
          IN  /\ file' = o.file
              /\ last' = Call("set_group_size",
                              [course_id |-> course_id, group_size |-> group_size], o)
              /\ hist' = IF o.exc = "none" \/ o.file = file THEN hist ELSE NoCalls
    /\ UNCHANGED <<readable, writable, constructed, procs>>

DeleteOf(ids) ==
    /\ constructed
    /\ \E course_id \in ids :
          LET o == DeleteCourseData(file, readable, writable, course_id)
          IN  /\ file' = o.file
              /\ last' = Call("delete_course", [course_id |-> course_id], o)
              /\ hist' = IF o.exc = "none"
                         THEN [hist EXCEPT ![course_id] = [n |-> 0, k |-> 0]]
                         ELSE IF o.file = file THEN hist ELSE NoCalls
    /\ UNCHANGED <<readable, writable, constructed, procs>>

GetCourseOf(ids) ==
    /\ constructed
    /\ \E course_id \in ids :
          LET o == GetCourseData(file, readable, course_id)
          IN  /\ file' = o.file
              /\ last' = Call("get_course", [course_id |-> course_id], o)
    /\ UNCHANGED <<readable, writable, constructed, hist, procs>>

GetAll ==
    /\ constructed
    /\ LET o == GetAllCourses(file, readable)
       IN  /\ file' = o.file
           /\ last' = Call("get_all_courses", << >>, o)
    /\ UNCHANGED <<readable, writable, constructed, hist, procs>>

EstimateOf(ids) ==
    /\ constructed
    /\ \E course_id \in ids :
          LET o == CalculateProbability(file, readable, course_id)
          IN  /\ file' = o.file
              /\ last' = Call("estimate", [course_id |-> course_id], o)
    /\ UNCHANGED <<readable, writable, constructed, hist, procs>>

\* The operations of the tracker on a healthy file system.
Record == RecordOf(CourseIds, CourseNames, Exercises, DateArgs, MaxSessions)
SetGroupSize == SetGroupSizeOf(CourseIds, GroupSizes)
DeleteCourse == DeleteOf(CourseIds)
GetCourse == GetCourseOf(CourseIds)
Estimate == EstimateOf(CourseIds)

Next ==
    \/ Construct
    \/ Record
    \/ SetGroupSize
    \/ DeleteCourse
    \/ GetCourse
    \/ GetAll
    \/ Estimate

Spec == Init /\ [][Next]_vars

----------------------------------------------------------------------------
(* The estimator on longer histories: one course, sessions that differ only *)
(* in was_called, and a wide range of group sizes.                          *)

RecordHistory == RecordOf(OneCourseId, OneName, OneExercise, NoDate, MaxHistory)
ConfigureGroupSize == SetGroupSizeOf(OneCourseId, EstimatorGroupSizes)
EstimateHistory == EstimateOf(OneCourseId)

NextEstimator ==
    \/ Construct
    \/ RecordHistory
    \/ ConfigureGroupSize
    \/ EstimateHistory

SpecEstimator == Init /\ [][NextEstimator]_vars

----------------------------------------------------------------------------
(* The tracker on a file system that fails: the file is damaged or removed  *)
(* behind the tracker's back, reads are refused, writes are refused or run  *)
(* out of space.                                                            *)

EnvStep == [op |-> "env", args |-> << >>, exc |-> "none", ret |-> None, saves |-> 0]

\* The file's content is replaced by something json.dump did not write.
DamageFile ==
    /\ file.kind # "missing"
    /\ \E content \in {Garbled, Undecodable, JsonArray} : file' = content
    /\ last' = EnvStep
    /\ hist' = NoCalls
    /\ UNCHANGED <<readable, writable, constructed, procs>>

RemoveFile ==
    /\ file.kind # "missing"
    /\ file' = Missing
    /\ last' = EnvStep
    /\ hist' = NoCalls
    /\ UNCHANGED <<readable, writable, constructed, procs>>

SetReadable ==
    /\ \E r \in BOOLEAN : readable' = r
    /\ last' = EnvStep
    /\ UNCHANGED <<file, writable, constructed, hist, procs>>

SetWritable ==
    /\ \E w \in {"ok", "denied", "full"} : writable' = w
    /\ last' = EnvStep
    /\ UNCHANGED <<file, readable, constructed, hist, procs>>

RecordFaulty == RecordOf(CourseIds, OneName, OneExercise, NoDate, MaxSessions)
SetGroupSizeFaulty == SetGroupSizeOf(CourseIds, FaultGroupSizes)

NextFaults ==
    \/ Construct
    \/ RecordFaulty
    \/ SetGroupSizeFaulty
    \/ DeleteCourse
    \/ GetCourse
    \/ GetAll
    \/ Estimate
    \/ DamageFile
    \/ RemoveFile
    \/ SetReadable
    \/ SetWritable

SpecFaults == Init /\ [][NextFaults]_vars

----------------------------------------------------------------------------
(* The tracker with courses whose display name changes between calls. *)

RecordNamed == RecordOf(CourseIds, TwoNames, OneExercise, NoDate, MaxSessions)

NextNames ==
    \/ Construct
    \/ RecordNamed
    \/ SetGroupSize
    \/ DeleteCourse
    \/ GetCourse

SpecNames == Init /\ [][NextNames]_vars

----------------------------------------------------------------------------
(* Two processes on one data file.  A call that saves is three steps: it    *)
(* loads the file and computes the mapping it will save; open(.., 'w')      *)
(* truncates the file; the text json.dump buffered is written when the      *)
(* with block closes the file.  The steps of the two processes interleave.  *)
(* Here last is the last completed save.                                    *)

SaveStep(p, data) ==
    [op |-> "save", args |-> [proc |-> p, data |-> data],
     exc |-> "none", ret |-> None, saves |-> 1]

\* Lines 87-105 / 117-121 / 221-224: the load and the change in memory.
BeginCall(p, o) ==
    /\ o.exc = "none"
    /\ o.saves = 1
    /\ procs' = [procs EXCEPT ![p] = [pc |-> "open", data |-> o.file.members]]
    /\ UNCHANGED <<file, readable, writable, constructed, last, hist>>

BeginRecord ==
    /\ constructed
    /\ TotalSessions(file) < MaxSessions
    /\ \E p \in Procs, was_called \in BOOLEAN :
          /\ procs[p].pc = "idle"
          /\ \E course_id \in OneCourseId, course_name \in OneName,
                exercise_name \in OneExercise, date \in NoDate :
                BeginCall(p, RecordParticipation(file, readable, writable, course_id,
                                 course_name, exercise_name, was_called, date))

BeginDelete ==
    /\ constructed
    /\ \E p \in Procs, course_id \in OneCourseId :
          /\ procs[p].pc = "idle"
          /\ BeginCall(p, DeleteCourseData(file, readable, writable, course_id))

\* Line 66: open(self.data_file, 'w').
OpenForWriting ==
    \E p \in Procs :
        /\ procs[p].pc = "open"
        /\ file' = Empty
        /\ procs' = [procs EXCEPT ![p].pc = "write"]
        /\ UNCHANGED <<readable, writable, constructed, last, hist>>

\* Lines 66-67: json.dump and the end of the with block.
WriteAndClose ==
    \E p \in Procs :
        /\ procs[p].pc = "write"
        /\ \E content \in WriteOver(file, procs[p].data) : file' = content
        /\ procs' = [procs EXCEPT ![p] = Idle]
        /\ last' = SaveStep(p, procs[p].data)
        /\ UNCHANGED <<readable, writable, constructed, hist>>

NextConcurrent ==
    \/ Construct
    \/ BeginRecord
    \/ BeginDelete
    \/ OpenForWriting
    \/ WriteAndClose

SpecConcurrent == Init /\ [][NextConcurrent]_vars

----------------------------------------------------------------------------
(* Two processes that construct their trackers.  _ensure_data_exists is the *)
(* existence check, then (if the file was missing) the truncating open and  *)
(* the write of the empty mapping; a process whose tracker exists records.  *)

ConstructStep(p) ==
    [op |-> "construct", args |-> [proc |-> p], exc |-> "none", ret |-> None, saves |-> 0]

\* Line 43: if not self.data_file.exists()
CheckExists ==
    \E p \in Procs :
        /\ procs[p].pc = "idle"
        /\ IF file.kind = "missing"
           THEN /\ procs' = [procs EXCEPT ![p] = [pc |-> "ctor_open", data |-> EmptyDict]]
                /\ UNCHANGED <<constructed, last>>
           ELSE /\ constructed' = TRUE
                /\ last' = ConstructStep(p)
                /\ UNCHANGED procs
        /\ UNCHANGED <<file, readable, writable, hist>>

\* Lines 44 and 66: _save_data({}) opens the file for writing.
ConstructorOpen ==
    \E p \in Procs :
        /\ procs[p].pc = "ctor_open"
        /\ file' = Empty
        /\ procs' = [procs EXCEPT ![p].pc = "ctor_write"]
        /\ UNCHANGED <<readable, writable, constructed, last, hist>>

\* Lines 66-67: json.dump({}) and the end of the with block.
ConstructorWrite ==
    \E p \in Procs :
        /\ procs[p].pc = "ctor_write"
        /\ \E content \in WriteOver(file, procs[p].data) : file' = content
        /\ procs' = [procs EXCEPT ![p] = Idle]
        /\ constructed' = TRUE
        /\ last' = [ConstructStep(p) EXCEPT !.saves = 1]
        /\ UNCHANGED <<readable, writable, hist>>

NextStartup ==
    \/ CheckExists
    \/ ConstructorOpen
    \/ ConstructorWrite
    \/ BeginRecord
    \/ OpenForWriting
    \/ WriteAndClose

SpecStartup == Init /\ [][NextStartup]_vars

----------------------------------------------------------------------------
(* Two tracker instances on one data file, as the interactive menu has     *)
(* them: the menu loop keeps one tracker for its summary and every         *)
(* sub-menu constructs its own.  Each call is atomic here.  For an         *)
(* instance, procs holds the mapping its last call had in its local        *)
(* variable data, which the call's return discards.                        *)

\* A faulty load, to test FreshReads: the instance answers from the mapping
\* of its previous call when it has one.
InstanceCache(f, inst) ==
    IF inst.data # EmptyDict THEN JsonObject(inst.data) ELSE f

\* What the _load_data of an instance reads: self.data_file (lines 52-54);
\* the instance has no other attribute (line 41).
InstanceView(f, inst) == f

InstanceCall(p, op, args, o) ==
    /\ file' = o.file
    /\ last' = Call(op, args, o)
    /\ procs' = [procs EXCEPT ![p] =
                    [pc |-> "idle",
                     data |-> IF o.file.kind = "object" THEN o.file.members ELSE EmptyDict]]
    /\ UNCHANGED <<readable, writable, constructed, hist>>

RecordBy ==
    /\ constructed
    /\ TotalSessions(file) < MaxSessions
    /\ \E p \in Procs, course_id \in OneCourseId, course_name \in OneName,
          exercise_name \in OneExercise, was_called \in BOOLEAN, date \in NoDate :
          InstanceCall(p, "record",
              [proc |-> p, course_id |-> course_id, course_name |-> course_name,
               exercise_name |-> exercise_name, was_called |-> was_called, date |-> date],
              RecordParticipation(InstanceView(file, procs[p]), readable, writable,
                  course_id, course_name, exercise_name, was_called, date))

DeleteBy ==
    /\ constructed
    /\ \E p \in Procs, course_id \in OneCourseId :
          InstanceCall(p, "delete_course", [proc |-> p, course_id |-> course_id],
              DeleteCourseData(InstanceView(file, procs[p]), readable, writable, course_id))

\* A read returns without saving: the file stays, whatever the instance read.
GetCourseBy ==
    /\ constructed
    /\ \E p \in Procs, course_id \in OneCourseId :
          LET o == GetCourseData(InstanceView(file, procs[p]), readable, course_id)
          IN  InstanceCall(p, "get_course", [proc |-> p, course_id |-> course_id],
                  [o EXCEPT !.file = file])

EstimateBy ==
    /\ constructed
    /\ \E p \in Procs, course_id \in OneCourseId :
          LET o == CalculateProbability(InstanceView(file, procs[p]), readable, course_id)
          IN  InstanceCall(p, "estimate", [proc |-> p, course_id |-> course_id],
                  [o EXCEPT !.file = file])

NextInstances ==
    \/ Construct
    \/ RecordBy
    \/ DeleteBy
    \/ GetCourseBy
    \/ EstimateBy

SpecInstances == Init /\ [][NextInstances]_vars

----------------------------------------------------------------------------
(* Properties *)

\* What the read operations answer in the current state.
Estimated(c) == CalculateProbability(file, readable, c)
Course(c) == GetCourseData(file, readable, c)
AllCourses == GetAllCourses(file, readable)
Absent(f, c) == GetCourseData(f, readable, c) = Outcome(f, "none", None)
Key42 == Str(42)

\* The read operation that has just been called answered as on an empty store.
ReadAnsweredEmpty ==
    /\ last.op \in {"get_course", "estimate"} => (last.exc = "none" /\ last.ret = None)
    /\ last.op = "get_all_courses" => (last.exc = "none" /\ last.ret = PyDict(EmptyDict))

\* C1: starting from a course id without a record, after N record calls for
\* it (with set_group_size calls and calls on other courses in between, and no
\* delete of it) estimate reports total_sessions = N and times_called = the
\* number of those calls with was_called = true.
SessionCounts ==
    \A c \in CourseIds :
        hist[c].n > 0 =>
            LET e == Estimated(c)
            IN  /\ e.exc = "none"
                /\ e.ret.t = "stats"
                /\ e.ret.v.total_sessions = hist[c].n
                /\ e.ret.v.times_called = hist[c].k

\* Two record calls for course 42 with the same label and the later date
\* first, one of them called, a set_group_size in between or after, and an
\* estimate that has just answered.
SessionCountsWitness ==
    /\ hist[42] = [n |-> 2, k |-> 1]
    /\ file.kind = "object"
    /\ Key42 \in DOMAIN file.members
    /\ LET r == file.members[Key42]
       IN  /\ r.group_size = 2
           /\ r.sessions[1].exercise = r.sessions[2].exercise
           /\ r.sessions[1].date = Today
           /\ r.sessions[2].date = "2024-03-01"
    /\ last.op = "estimate"
    /\ last.args.course_id = 42
    /\ last.ret.t = "stats"
    /\ last.ret.v.total_sessions = 2

\* C2: every stored group_size is at least 1.
StoredGroupSizePositive ==
    file.kind = "object" =>
        \A k \in DOMAIN file.members : file.members[k].group_size >= 1

\* C3: for a course id with no recorded sessions estimate returns None and
\* does not raise, whatever set_group_size calls were made for it.
NoDataWithoutSessions ==
    /\ \A c \in CourseIds :
          LET got == Course(c).ret
          IN  (got.t = "None" \/ got.v.sessions = << >>) =>
                  Estimated(c) = Outcome(file, "none", None)
    /\ (last.op = "estimate" /\ Course(last.args.course_id).ret.t = "None") =>
          (last.exc = "none" /\ last.ret = None)

\* estimate has just answered for a course id without a record while the
\* other course has one.
NoDataWithoutSessionsWitness ==
    /\ last.op = "estimate"
    /\ last.ret = None
    /\ hist[last.args.course_id].n = 0
    /\ Absent(file, last.args.course_id)
    /\ \E c \in CourseIds : hist[c].n > 0

\* C4: a file whose content is not JSON loads as the empty store: get_course
\* and estimate return None for every id, get_all_courses returns {}, and
\* none of them raises.
DamagedFileLoadsEmpty ==
    (readable /\ file.kind \in {"garbled", "undecodable"}) => ReadAnsweredEmpty

\* C5: a file that exists and cannot be read is treated as the empty store.
UnreadableFileLoadsEmpty ==
    (~readable /\ file.kind = "object") => ReadAnsweredEmpty

\* C6: when the write fails during record, or during set_group_size or
\* delete_course on a course that has a record, the call raises.
WriteFailureSurfaces ==
    [][(/\ writable # "ok"
        /\ \/ last'.op = "record"
           \/ /\ last'.op \in {"set_group_size", "delete_course"}
              /\ Present(file, readable, last'.args.course_id))
       => last'.exc # "none"]_vars

\* delete_course on a course with a record has just raised PermissionError
\* because the file cannot be written.
WriteFailureSurfacesWitness ==
    /\ last.op = "delete_course"
    /\ last.exc = "PermissionError"
    /\ last.saves = 1
    /\ writable = "denied"
    /\ readable
    /\ Present(file, readable, last.args.course_id)

\* C7: set_group_size on a course id without a record changes nothing, writes
\* nothing and creates no record, for every group size.
SetGroupSizeUnknownIsNoOp ==
    [][(/\ last'.op = "set_group_size"
        /\ ~Present(file, readable, last'.args.course_id))
       => /\ file' = file
          /\ last'.saves = 0
          /\ last'.exc = "none"
          /\ Absent(file', last'.args.course_id)]_vars

\* set_group_size(c, 0) has just returned for a c without a record while the
\* other course has one.
SetGroupSizeUnknownIsNoOpWitness ==
    /\ last.op = "set_group_size"
    /\ last.args.group_size = 0
    /\ last.exc = "none"
    /\ Absent(file, last.args.course_id)
    /\ \E c \in CourseIds : Course(c).ret.t = "dict"

\* C8: delete_course returns true exactly when the id had a record; then the
\* id is absent from get_course and from get_all_courses and every other
\* course's record is as before; on an id without a record the store is
\* unchanged.
DeleteLeavesOthers ==
    [][last'.op = "delete_course" =>
        LET c == last'.args.course_id
            was == Present(file, readable, c)
        IN  /\ last'.exc = "none"
            /\ last'.ret = PyBool(was)
            /\ Absent(file', c)
            /\ c \notin DOMAIN GetAllCourses(file', readable).ret.v
            /\ \A o \in CourseIds \ {c} :
                  GetCourseData(file', readable, o).ret = GetCourseData(file, readable, o).ret
            /\ ~was => file' = file]_vars

\* delete_course has just returned True and the other course still has its record.
DeleteLeavesOthersWitness ==
    /\ last.op = "delete_course"
    /\ last.ret = PyBool(TRUE)
    /\ Absent(file, last.args.course_id)
    /\ \E o \in CourseIds \ {last.args.course_id} : Course(o).ret.t = "dict"

\* C9: right after record(course_id, course_name, exercise_name, was_called,
\* date), get_course(course_id) returns a record whose last session has that
\* exercise and was_called, and get_all_courses maps the integer course_id to
\* the same record.
RecordRoundTrip ==
    (last.op = "record" /\ last.exc = "none") =>
        LET c == last.args.course_id
            got == Course(c)
        IN  /\ got.exc = "none"
            /\ got.ret.t = "dict"
            /\ Len(got.ret.v.sessions) >= 1
            /\ LET s == got.ret.v.sessions[Len(got.ret.v.sessions)]
               IN  /\ s.exercise = last.args.exercise_name
                   /\ s.was_called = last.args.was_called
            /\ LET all == AllCourses
               IN  /\ all.exc = "none"
                   /\ c \in DOMAIN all.ret.v
                   /\ all.ret.v[c] = got.ret.v

\* record has just added a second session to course 42 that differs from the
\* first in exercise and was_called.
RecordRoundTripWitness ==
    /\ last.op = "record"
    /\ last.exc = "none"
    /\ last.args.course_id = 42
    /\ Course(42).ret.t = "dict"
    /\ Len(Course(42).ret.v.sessions) = 2
    /\ Course(42).ret.v.sessions[1].exercise # last.args.exercise_name
    /\ Course(42).ret.v.sessions[1].was_called # last.args.was_called

\* C10: whenever estimate returns a result, adjusted_probability and
\* base_probability lie in [0, 100], whatever the number of sessions, the
\* number of called sessions and the stored group size (zero and negative
\* included).
InPercentRange(x) == RLe(FromInt(0), x) /\ RLe(x, FromInt(100))

ProbabilitiesInRange ==
    \A c \in CourseIds :
        Estimated(c).ret.t = "stats" =>
            /\ InPercentRange(Estimated(c).ret.v.adjusted_probability)
            /\ InPercentRange(Estimated(c).ret.v.base_probability)

\* estimate has just answered 100 for a course with a negative stored group
\* size and MaxHistory sessions, none of them called: the clamp to 1 acts.
ProbabilitiesInRangeWitness ==
    /\ last.op = "estimate"
    /\ last.ret.t = "stats"
    /\ file.members[Key42].group_size < 0
    /\ last.ret.v.total_sessions = MaxHistory
    /\ last.ret.v.times_called = 0
    /\ last.ret.v.adjusted_probability = FromInt(100)

\* C11: for a course with n >= 1 sessions, k of them called, and a stored
\* group size g >= 1, estimate reports base_probability = 100/g,
\* expected_calls = n/g and adjusted_probability =
\* 100 * clamp((1/g) * (1 + 0.5 * clamp((n/g - k) / (n/g), -1, 1)), 0, 1), in
\* exact rational arithmetic; with g = 5 and sessions not called, not called,
\* not called, called it reports 20, 4/5 and 35/2.  The right-hand sides are
\* spelled out in integers: (n/g - k) / (n/g) = (n - k*g) / n, so that the
\* probability is (2n + clamp(n - k*g, -n, n)) / (2*n*g).
EstimateFormula ==
    \A c \in CourseIds :
        (Estimated(c).ret.t = "stats" /\ file.members[Str(c)].group_size >= 1) =>
            LET r == Estimated(c).ret.v
                sessions == file.members[Str(c)].sessions
                n == Len(sessions)
                k == Cardinality({i \in 1..n : sessions[i].was_called})
                g == file.members[Str(c)].group_size
                gap == n - k * g
                adj == IF gap > n THEN n ELSE IF gap < 0 - n THEN 0 - n ELSE gap
                den == 2 * n * g
                num == IF 2 * n + adj > den THEN den
                       ELSE IF 2 * n + adj < 0 THEN 0 ELSE 2 * n + adj
            IN  /\ r.base_probability.num * g = 100 * r.base_probability.den
                /\ r.expected_calls.num * g = n * r.expected_calls.den
                /\ r.adjusted_probability.num * den = 100 * num * r.adjusted_probability.den
                /\ (g = 5 /\ [i \in 1..n |-> sessions[i].was_called] = <<FALSE, FALSE, FALSE, TRUE>>) =>
                      /\ r.base_probability = [num |-> 20, den |-> 1]
                      /\ r.expected_calls = [num |-> 4, den |-> 5]
                      /\ r.adjusted_probability = [num |-> 35, den |-> 2]

\* estimate has just answered 35/2 for a course with group size 5 and the
\* sessions not called, not called, not called, called.
EstimateFormulaWitness ==
    /\ last.op = "estimate"
    /\ last.ret.t = "stats"
    /\ file.members[Key42].group_size = 5
    /\ [i \in 1..Len(file.members[Key42].sessions) |->
           file.members[Key42].sessions[i].was_called] = <<FALSE, FALSE, FALSE, TRUE>>
    /\ last.ret.v.adjusted_probability = [num |-> 35, den |-> 2]
    /\ last.ret.v.expected_calls = [num |-> 4, den |-> 5]

\* C12: when times_called equals expected_calls exactly, the adjusted
\* probability equals the base probability.
GapZeroKeepsBase ==
    \A c \in CourseIds :
        (/\ Estimated(c).ret.t = "stats"
         /\ Estimated(c).ret.v.expected_calls = FromInt(Estimated(c).ret.v.times_called)) =>
            Estimated(c).ret.v.adjusted_probability = Estimated(c).ret.v.base_probability

\* estimate has just answered for a course with group size 3 and six
\* sessions, two of them called: expected_calls = 2 = times_called.
GapZeroKeepsBaseWitness ==
    /\ last.op = "estimate"
    /\ last.ret.t = "stats"
    /\ file.members[Key42].group_size = 3
    /\ last.ret.v.total_sessions = 6
    /\ last.ret.v.times_called = 2
    /\ last.ret.v.expected_calls = FromInt(2)
    /\ last.ret.v.adjusted_probability = last.ret.v.base_probability

\* C13: a course id goes from having no record to having one only by a
\* record call for that id, which creates the record with group_size 1 and
\* exactly the one new session (also when the id had a record before that was
\* deleted); set_group_size never gives an id a record; an id loses its record
\* only by delete_course for that id.
CourseLifecycle ==
    [][\A c \in CourseIds :
        LET was == Present(file, readable, c)
            is == Present(file', readable, c)
        IN  /\ (~was /\ is) =>
                  /\ last'.op = "record"
                  /\ last'.args.course_id = c
                  /\ file'.members[Str(c)].group_size = 1
                  /\ Len(file'.members[Str(c)].sessions) = 1
                  /\ file'.members[Str(c)].sessions[1].exercise = last'.args.exercise_name
                  /\ file'.members[Str(c)].sessions[1].was_called = last'.args.was_called
            /\ (was /\ ~is) =>
                  /\ last'.op = "delete_course"
                  /\ last'.args.course_id = c
            /\ last'.op = "set_group_size" => (is <=> was)]_vars

\* record has just created the record of a course, with group_size 1 and one
\* session, while the other course has a record whose group size was set.
CourseLifecycleWitness ==
    /\ last.op = "record"
    /\ last.exc = "none"
    /\ hist[last.args.course_id] = [n |-> 1, k |-> 1]
    /\ Course(last.args.course_id).ret.v.group_size = 1
    /\ Len(Course(last.args.course_id).ret.v.sessions) = 1
    /\ \E o \in CourseIds \ {last.args.course_id} :
          Course(o).ret.t = "dict" /\ Course(o).ret.v.group_size = 2

\* C14: the sessions of a course are append-only: for every operation other
\* than a delete_course of that course, the sessions before the operation are
\* a prefix of the sessions after it, and record appends exactly one session
\* at the end.
SessionsAppendOnly ==
    [][\A c \in CourseIds :
        LET before == IF Present(file, readable, c)
                      THEN file.members[Str(c)].sessions ELSE << >>
            deleted == last'.op = "delete_course" /\ last'.args.course_id = c
            recorded == last'.op = "record" /\ last'.args.course_id = c
        IN  /\ (Present(file, readable, c) /\ ~deleted) =>
                  /\ Present(file', readable, c)
                  /\ Len(file'.members[Str(c)].sessions) >= Len(before)
                  /\ \A i \in 1..Len(before) : file'.members[Str(c)].sessions[i] = before[i]
            /\ recorded =>
                  /\ Present(file', readable, c)
                  /\ Len(file'.members[Str(c)].sessions) = Len(before) + 1
            /\ (Present(file', readable, c) /\ ~recorded) =>
                  file'.members[Str(c)].sessions = before]_vars

\* record has just appended a second session to course 42 that differs from
\* the first one in its date, its exercise and was_called.
SessionsAppendOnlyWitness ==
    /\ last.op = "record"
    /\ last.exc = "none"
    /\ last.args.course_id = 42
    /\ hist[42].n = 2
    /\ Len(Course(42).ret.v.sessions) = 2
    /\ Course(42).ret.v.sessions[1].date # Course(42).ret.v.sessions[2].date
    /\ Course(42).ret.v.sessions[1].exercise # Course(42).ret.v.sessions[2].exercise
    /\ Course(42).ret.v.sessions[1].was_called # Course(42).ret.v.sessions[2].was_called
    /\ Course(42).ret.v.sessions[2].was_called = last.args.was_called

\* C15: when two processes interleave their loads and saves, the store that
\* remains once no save is under way is the complete mapping written by the
\* save that executed last, never a mixture of two saves.
LastWriteWins ==
    (last.op = "save" /\ \A p \in Procs : procs[p].pc # "write") =>
        file = JsonObject(last.args.data)

\* C16: for a course with sessions whose stored group_size is below 1,
\* estimate computes with group size 1: it reports group_size 1,
\* base_probability 100 and expected_calls = total_sessions, and it does not
\* divide by zero.
ClampedGroupSize ==
    \A c \in CourseIds :
        (/\ Course(c).ret.t = "dict"
         /\ Course(c).ret.v.sessions # << >>
         /\ Course(c).ret.v.group_size < 1) =>
            /\ Estimated(c).exc = "none"
            /\ Estimated(c).ret.t = "stats"
            /\ Estimated(c).ret.v.group_size = 1
            /\ Estimated(c).ret.v.base_probability = FromInt(100)
            /\ Estimated(c).ret.v.total_sessions = Len(Course(c).ret.v.sessions)
            /\ Estimated(c).ret.v.expected_calls = FromInt(Len(Course(c).ret.v.sessions))

\* estimate has just answered for a course with stored group size 0 and three
\* sessions, one of them called.
ClampedGroupSizeWitness ==
    /\ last.op = "estimate"
    /\ last.exc = "none"
    /\ last.ret.t = "stats"
    /\ file.members[Key42].group_size = 0
    /\ last.ret.v.group_size = 1
    /\ last.ret.v.total_sessions = 3
    /\ last.ret.v.times_called = 1
    /\ last.ret.v.expected_calls = FromInt(3)

\* C17: after every record call the stored course_name of the course is the
\* name passed to that call, whether or not the course had a record; no other
\* operation changes the name, so the stored name is always the name of the
\* most recent record call for the course.
NameFollowsRecord ==
    [][\A c \in CourseIds :
        LET recorded == last'.op = "record" /\ last'.args.course_id = c
        IN  /\ recorded =>
                  /\ last'.exc = "none"
                  /\ Present(file', readable, c)
                  /\ file'.members[Str(c)].course_name = last'.args.course_name
            /\ (Present(file, readable, c) /\ Present(file', readable, c) /\ ~recorded) =>
                  file'.members[Str(c)].course_name = file.members[Str(c)].course_name]_vars

\* record has just been called a second time for course 42, with the longer
\* name and was_called true after a session that was not called, and the
\* course is stored under the longer name.
NameFollowsRecordWitness ==
    /\ last.op = "record"
    /\ last.exc = "none"
    /\ last.args.course_id = 42
    /\ hist[42] = [n |-> 2, k |-> 1]
    /\ last.args.was_called
    /\ last.args.course_name = "Algorithms and Data Structures"
    /\ Course(42).ret.v.course_name = "Algorithms and Data Structures"
    /\ Course(42).ret.v.group_size = 2

\* C18: the sessions field of an estimate holds exactly the last
\* min(5, total_sessions) sessions of the course, in the order they were
\* recorded, the most recent one last.
RecentSessions ==
    \A c \in CourseIds :
        Estimated(c).ret.t = "stats" =>
            LET all == file.members[Str(c)].sessions
                n == Len(all)
                m == IF n < 5 THEN n ELSE 5
                shown == Estimated(c).ret.v.sessions
            IN  /\ Estimated(c).ret.v.total_sessions = n
                /\ Len(shown) = m
                /\ \A i \in 1..m : shown[i] = all[n - m + i]

\* estimate has just answered for a course with six sessions, the first and
\* the last of them called: it shows five sessions, not called four times and
\* then called.
RecentSessionsWitness ==
    /\ last.op = "estimate"
    /\ last.ret.t = "stats"
    /\ Len(file.members[Key42].sessions) = 6
    /\ file.members[Key42].sessions[1].was_called
    /\ [i \in 1..Len(last.ret.v.sessions) |-> last.ret.v.sessions[i].was_called]
           = <<FALSE, FALSE, FALSE, FALSE, TRUE>>

\* C19: for every stored group size >= 1, whenever times_called is below
\* expected_calls the adjusted probability is strictly greater than the base
\* probability, and whenever times_called is above expected_calls it is
\* strictly lower.
GapMovesProbability ==
    \A c \in CourseIds :
        (Estimated(c).ret.t = "stats" /\ file.members[Str(c)].group_size >= 1) =>
            LET r == Estimated(c).ret.v
            IN  /\ RLt(FromInt(r.times_called), r.expected_calls) =>
                      RLt(r.base_probability, r.adjusted_probability)
                /\ RLt(r.expected_calls, FromInt(r.times_called)) =>
                      RLt(r.adjusted_probability, r.base_probability)

\* C19, amended: the same for every stored group size >= 2; with group size 1
\* the base probability is 100 already, and with times_called below
\* expected_calls the adjusted probability is clamped to 100 and equals it.
\* With times_called above expected_calls it is strictly lower for every
\* group size >= 1.
GapMovesProbabilityBelowCertainty ==
    \A c \in CourseIds :
        (Estimated(c).ret.t = "stats" /\ file.members[Str(c)].group_size >= 1) =>
            LET r == Estimated(c).ret.v
                g == file.members[Str(c)].group_size
            IN  /\ (g >= 2 /\ RLt(FromInt(r.times_called), r.expected_calls)) =>
                      RLt(r.base_probability, r.adjusted_probability)
                /\ (g = 1 /\ RLt(FromInt(r.times_called), r.expected_calls)) =>
                      /\ r.base_probability = FromInt(100)
                      /\ r.adjusted_probability = FromInt(100)
                /\ RLt(r.expected_calls, FromInt(r.times_called)) =>
                      RLt(r.adjusted_probability, r.base_probability)

\* estimate has just answered for a course with group size 1 and two
\* sessions, one of them called: times_called 1 is below expected_calls 2, and
\* the adjusted probability is 100 like the base probability.
GapMovesProbabilityBelowCertaintyWitness ==
    /\ last.op = "estimate"
    /\ last.ret.t = "stats"
    /\ file.members[Key42].group_size = 1
    /\ last.ret.v.total_sessions = 2
    /\ last.ret.v.times_called = 1
    /\ last.ret.v.expected_calls = FromInt(2)
    /\ last.ret.v.base_probability = FromInt(100)
    /\ last.ret.v.adjusted_probability = FromInt(100)

\* C20: record stores the date string the caller supplies unchanged in the
\* new session, for every string value, and puts the current date there only
\* when the date argument is omitted.
SuppliedDateStored ==
    (last.op = "record" /\ last.exc = "none") =>
        LET sessions == Course(last.args.course_id).ret.v.sessions
            stored == sessions[Len(sessions)].date
        IN  /\ last.args.date # << >> => stored = last.args.date[1]
            /\ last.args.date = << >> => stored = Today

\* C21: get_course, get_all_courses and estimate never change the persisted
\* file, whatever it holds (content that does not parse, content that cannot
\* be decoded or read, no file at all) and whether they return or raise.
ReadsLeaveFile ==
    [][last'.op \in {"get_course", "get_all_courses", "estimate"} => file' = file]_vars

\* estimate has just returned None on a file whose content does not parse,
\* and the file still holds that content.
ReadsLeaveFileWitness ==
    /\ last.op = "estimate"
    /\ last.exc = "none"
    /\ last.ret = None
    /\ readable
    /\ file = Garbled

\* C22: set_group_size on a course with a record changes only that course's
\* group_size (its course_name and sessions stay), record on a course with a
\* record leaves its group_size as stored, and both leave the record of every
\* other course as it was.
GroupSizeIndependent ==
    [][\A c \in CourseIds :
        LET had == Present(file, readable, c)
            on == last'.args.course_id = c
        IN  /\ (last'.op = "set_group_size" /\ on /\ had) =>
                  /\ Present(file', readable, c)
                  /\ file'.members[Str(c)].group_size = last'.args.group_size
                  /\ file'.members[Str(c)].course_name = file.members[Str(c)].course_name
                  /\ file'.members[Str(c)].sessions = file.members[Str(c)].sessions
            /\ (last'.op = "record" /\ on /\ had) =>
                  /\ Present(file', readable, c)
                  /\ file'.members[Str(c)].group_size = file.members[Str(c)].group_size
            /\ (last'.op \in {"set_group_size", "record"} /\ ~on) =>
                  /\ Present(file', readable, c) <=> had
                  /\ had => file'.members[Str(c)] = file.members[Str(c)]]_vars

\* set_group_size(c, 0) has just returned for a course stored under the
\* longer name, while the other course keeps group size 2 and the shorter name.
GroupSizeIndependentWitness ==
    /\ last.op = "set_group_size"
    /\ last.args.group_size = 0
    /\ Course(last.args.course_id).ret.t = "dict"
    /\ Course(last.args.course_id).ret.v.group_size = 0
    /\ Course(last.args.course_id).ret.v.course_name = "Algorithms and Data Structures"
    /\ Len(Course(last.args.course_id).ret.v.sessions) = 1
    /\ \E o \in CourseIds \ {last.args.course_id} :
          /\ Course(o).ret.t = "dict"
          /\ Course(o).ret.v.group_size = 2
          /\ Course(o).ret.v.course_name = "Algorithms I"

\* C23: in every state reached from the empty store by record,
\* set_group_size and delete_course, every stored course has at least one
\* session, so that estimate returns a result for an id exactly when
\* get_course returns a record for it.
StoredCoursesHaveSessions ==
    /\ file.kind = "object" =>
          \A k \in DOMAIN file.members : Len(file.members[k].sessions) >= 1
    /\ \A c \in CourseIds :
          LET e == Estimated(c)
              got == Course(c).ret
          IN  /\ e.exc = "none"
              /\ e.ret.t = "stats" <=> got.t = "dict"
              /\ e.ret = None <=> got = None

\* estimate has just returned a result for a course whose group size was set
\* to 0, while the other course has no record and gets None.
StoredCoursesHaveSessionsWitness ==
    /\ last.op = "estimate"
    /\ last.ret.t = "stats"
    /\ Course(last.args.course_id).ret.t = "dict"
    /\ Course(last.args.course_id).ret.v.group_size = 0
    /\ \E o \in CourseIds \ {last.args.course_id} :
          Course(o).ret = None /\ Estimated(o).ret = None

\* C24: constructing a tracker writes the empty store only when there is no
\* store file and never changes the content of a store that exists, also
\* when another process creates the file and records a session between the
\* constructor's existence check and its write: no step of a constructor
\* changes a file that holds a store.
ConstructorKeepsStore ==
    [][\A p \in Procs :
        (/\ procs[p].pc \in {"ctor_open", "ctor_write"}
         /\ procs'[p].pc # procs[p].pc
         /\ file.kind = "object") => file' = file]_vars

\* C25: when the save of record, set_group_size or delete_course fails, the
\* file afterwards still loads as the mapping it held before the call:
\* sessions recorded earlier are not lost through a failed write.
FailedSaveKeepsStore ==
    [][(/\ last'.op \in {"record", "set_group_size", "delete_course"}
        /\ last'.saves = 1
        /\ last'.exc # "none")
       => LoadData(file', TRUE) = LoadData(file, TRUE)]_vars

CorruptFileRecovery ==
    [][(readable /\ writable = "ok" /\ file.kind \in {"garbled", "undecodable"}) =>
        /\ last'.op = "record" =>
              /\ last'.exc = "none"
              /\ file'.kind = "object"
              /\ DOMAIN file'.members = {Str(last'.args.course_id)}
              /\ file'.members[Str(last'.args.course_id)].group_size = 1
              /\ Len(file'.members[Str(last'.args.course_id)].sessions) = 1
        /\ last'.op \in {"set_group_size", "delete_course"} => file' = file]_vars

\* C28: with the group size of a course as stored, recording one more
\* session with was_called = false never lowers the adjusted_probability
\* that estimate reports, and recording one more session with
\* was_called = true never raises it.
RecordMovesEstimate ==
    [][(/\ last'.op = "record"
        /\ last'.exc = "none"
        /\ CalculateProbability(file, readable, last'.args.course_id).ret.t = "stats") =>
        LET before == CalculateProbability(file, readable, last'.args.course_id).ret.v
            after == CalculateProbability(file', readable, last'.args.course_id).ret.v
        IN  /\ after.group_size = before.group_size
            /\ after.total_sessions = before.total_sessions + 1
            /\ ~last'.args.was_called =>
                  RLe(before.adjusted_probability, after.adjusted_probability)
            /\ last'.args.was_called =>
                  RLe(after.adjusted_probability, before.adjusted_probability)]_vars

\* record has just added a session that was not called to a course with
\* group size 3, which now has five sessions, two of them called, and an
\* adjusted probability below the base probability.
RecordMovesEstimateWitness ==
    /\ last.op = "record"
    /\ last.exc = "none"
    /\ ~last.args.was_called
    /\ file.members[Key42].group_size = 3
    /\ Estimated(42).ret.t = "stats"
    /\ Estimated(42).ret.v.total_sessions = 5
    /\ Estimated(42).ret.v.times_called = 2
    /\ RLt(Estimated(42).ret.v.adjusted_probability, Estimated(42).ret.v.base_probability)

\* C29: for a course whose effective group size is 1 (the default of a new
\* course, and what a stored size below 1 counts as), estimate reports
\* base_probability 100 and adjusted_probability 100 for every history with
\* at least one session, whatever the was_called values.
CertainWhenAlone ==
    \A c \in CourseIds :
        (Estimated(c).ret.t = "stats" /\ Estimated(c).ret.v.group_size = 1) =>
            /\ Estimated(c).ret.v.base_probability = FromInt(100)
            /\ Estimated(c).ret.v.adjusted_probability = FromInt(100)

\* estimate has just answered 100 and 100 for a course with the stored group
\* size 1 and four sessions, two of them called.
CertainWhenAloneWitness ==
    /\ last.op = "estimate"
    /\ last.ret.t = "stats"
    /\ file.members[Key42].group_size = 1
    /\ last.ret.v.group_size = 1
    /\ last.ret.v.total_sessions = 4
    /\ last.ret.v.times_called = 2
    /\ last.ret.v.base_probability = FromInt(100)
    /\ last.ret.v.adjusted_probability = FromInt(100)

====
